---- MODULE Spec2Model ----
(***************************************************************************)
(* Model of policyfromOppDash.py: the "New Business Binds" Streamlit       *)
(* dashboard.  The script is re-executed top to bottom on every user       *)
(* interaction (a "rerun"); st.session_state survives between reruns.      *)
(*                                                                         *)
(*   SpecDate  get_date_range as a function of (period, now)               *)
(*   Spec      the script: widgets, query trigger, the Salesforce call     *)
(*             with its continuation-page loop, shaping, session cache,    *)
(*             policy-type filter and group-by                             *)
(*   FairSpec  Spec plus weak fairness of the steps that run without the   *)
(*             user (everything between the button press and the end of    *)
(*             the rerun)                                                  *)
(***************************************************************************)
EXTENDS Integers, Sequences, FiniteSets, TLC

VARIABLES
    mode,                 \* which specification is running (not program state)
    pc,                   \* position of the script
    today,                \* datetime.now(tz) of the current rerun
    selected_period,      \* the period selectbox
    start_date, end_date, \* the two strings get_date_range returned
    run_query_button,     \* st.sidebar.button(...) of the current rerun
    authenticated, df, query, force_query,   \* st.session_state
    query_results,        \* local of connect_to_salesforce_and_run_query
    records,              \* local of connect_to_salesforce_and_run_query
    ret,                  \* what connect_to_salesforce_and_run_query returned
    selected_policy_types,\* the policy type multiselect
    filtered_df,          \* df restricted to the selected policy types
    policy_type_analysis, \* the grouped table the charts draw
    pages,                \* history: the responses the server gave in this call
    more_calls,           \* history: query_more calls made in this call
    outcome,              \* history: how the call of this rerun ended
    last_ok,              \* history: what the last successful call returned
    failures,             \* history: <<kind of failure, value returned>> of the
                          \* failed logins and queries so far
    before,               \* history: session state when the button was pressed
    period_changed        \* history: the selector moved in this rerun

vars == <<mode, pc, today, selected_period, start_date, end_date,
          run_query_button, authenticated, df, query, force_query,
          query_results, records, ret, selected_policy_types, filtered_df,
          policy_type_analysis, pages, more_calls, outcome, last_ok, failures,
          before,
          period_changed>>

\* None: see "Values" below
None == <<>>

(***************************************************************************)
(* Bounds                                                                  *)
(***************************************************************************)
MinYear == 2023
MaxYear == 2024

(***************************************************************************)
(* datetime: the proleptic Gregorian calendar as Python's datetime         *)
(* implements it.  An aware datetime is a record of wall-clock fields and  *)
(* the UTC offset (minutes) of its tzinfo.                                 *)
(***************************************************************************)
is_leap(y) == (y % 4 = 0) /\ ((y % 100 # 0) \/ (y % 400 = 0))

days_in_month(y, m) ==
    IF m = 2 THEN (IF is_leap(y) THEN 29 ELSE 28)
    ELSE IF m \in {4, 6, 9, 11} THEN 30 ELSE 31

days_before_year(y) ==
    (y - 1) * 365 + ((y - 1) \div 4) - ((y - 1) \div 100) + ((y - 1) \div 400)

\* _DAYS_BEFORE_MONTH, for a common year
DaysBeforeMonthTable == <<0, 31, 59, 90, 120, 151, 181, 212, 243, 273, 304, 334>>

days_before_month(y, m) ==
    DaysBeforeMonthTable[m] + (IF m > 2 /\ is_leap(y) THEN 1 ELSE 0)

ymd2ord(y, m, d) == days_before_year(y) + days_before_month(y, m) + d

\* _ord2ymd: 400-, 100-, 4- and 1-year cycles, then the month by estimate
ord2ymd(ordinal) ==
    LET n0   == ordinal - 1
        n400 == n0 \div 146097
        n1r  == n0 % 146097
        n100 == n1r \div 36524
        n2r  == n1r % 36524
        n4   == n2r \div 1461
        n3r  == n2r % 1461
        n1   == n3r \div 365
        n    == n3r % 365
        year == n400 * 400 + 1 + n100 * 100 + n4 * 4 + n1
        leapyear == n1 = 3 /\ (n4 # 24 \/ n100 = 3)
        guess == (n + 50) \div 32
        before_guess == DaysBeforeMonthTable[guess]
                        + (IF guess > 2 /\ leapyear THEN 1 ELSE 0)
        month == IF before_guess > n THEN guess - 1 ELSE guess
        preceding == DaysBeforeMonthTable[month]
                     + (IF month > 2 /\ leapyear THEN 1 ELSE 0)
    IN  IF n1 = 4 \/ n100 = 4 THEN <<year - 1, 12, 31>>
        ELSE <<year, month, n - preceding + 1>>

\* date.weekday(): Monday is 0, Sunday is 6
weekday(y, m, d) == (ymd2ord(y, m, d) + 6) % 7

DateTime(y, mo, d, h, mi, s, off) ==
    [year |-> y, month |-> mo, day |-> d,
     hour |-> h, minute |-> mi, second |-> s, off |-> off]

\* datetime + timedelta(days, seconds): wall-clock arithmetic, tzinfo kept
AddDelta(dt, days, seconds) ==
    LET secs == dt.hour * 3600 + dt.minute * 60 + dt.second + seconds
        ord  == ymd2ord(dt.year, dt.month, dt.day) + days + (secs \div 86400)
        rem  == secs % 86400
        ymd  == ord2ymd(ord)
    IN  DateTime(ymd[1], ymd[2], ymd[3],
                 rem \div 3600, (rem % 3600) \div 60, rem % 60, dt.off)

\* the day of the n-th Sunday of a month
NthSunday(y, m, n) ==
    CHOOSE d \in 1..days_in_month(y, m) :
        weekday(y, m, d) = 6 /\ (d - 1) \div 7 = n - 1

\* pytz US/Eastern: the offset datetime.now(tz) carries.  Daylight time runs
\* from the second Sunday of March (wall clock jumps from 02:00 to 03:00) to
\* the first Sunday of November (wall clock falls back from 02:00 to 01:00).
InDaylightTime(y, m, d, h) ==
    LET spring == NthSunday(y, 3, 2)
        fall   == NthSunday(y, 11, 1)
    IN  \/ (m > 3 /\ m < 11)
        \/ (m = 3 /\ (d > spring \/ (d = spring /\ h >= 3)))
        \/ (m = 11 /\ (d < fall \/ (d = fall /\ h < 1)))

EasternOffset(y, m, d, h) == IF InDaylightTime(y, m, d, h) THEN 0 - 240 ELSE 0 - 300

\* datetime(..., tzinfo=tz) with a pytz zone: the zone's first entry, local
\* mean time, UTC-04:56
LmtOffset == 0 - 296

\* strftime("%Y-%m-%dT%H:%M:%S%z"): the fields the string carries, in order;
\* %z is sign, hours and minutes of the offset
Strftime(dt) ==
    LET a == IF dt.off < 0 THEN 0 - dt.off ELSE dt.off
    IN  <<dt.year, dt.month, dt.day, dt.hour, dt.minute, dt.second,
          IF dt.off < 0 THEN "-" ELSE "+", a \div 60, a % 60>>

Periods == {"Week", "Month", "Quarter"}

\* line 29
WeekStart_isoweekday(now) ==
    [AddDelta(now, 0 - (weekday(now.year, now.month, now.day) + 1), 0)
        EXCEPT !.hour = 0, !.minute = 0, !.second = 0]

WeekStart(now) ==
    [AddDelta(now, 0 - weekday(now.year, now.month, now.day), 0)
        EXCEPT !.hour = 0, !.minute = 0, !.second = 0]

\* line 30
WeekEnd(start_of_period) == AddDelta(start_of_period, 6, 23 * 3600 + 59 * 60 + 59)

\* line 32
MonthStart(now) == [now EXCEPT !.day = 1, !.hour = 0, !.minute = 0, !.second = 0]

\* line 33
MonthEnd_30days(start_of_period) ==
    AddDelta([AddDelta(start_of_period, 30, 0) EXCEPT !.day = 1], 0, 0 - 1)

MonthEnd(start_of_period) ==
    AddDelta([AddDelta(start_of_period, 31, 0) EXCEPT !.day = 1], 0, 0 - 1)

\* line 35
Quarter(now) == ((now.month - 1) \div 3) + 1

\* line 36
QuarterStart(now) == DateTime(now.year, 3 * Quarter(now) - 2, 1, 0, 0, 0, LmtOffset)

\* lines 37-40
QuarterEnd_thisMonth(now) ==
    IF Quarter(now) < 4
    THEN AddDelta(DateTime(now.year, 3 * Quarter(now) - 2, 1, 0, 0, 0, LmtOffset), 0, 0 - 1)
    ELSE DateTime(now.year, 12, 31, 23, 59, 59, LmtOffset)

QuarterEnd(now) ==
    IF Quarter(now) < 4
    THEN AddDelta(DateTime(now.year, 3 * Quarter(now) + 1, 1, 0, 0, 0, LmtOffset), 0, 0 - 1)
    ELSE DateTime(now.year, 12, 31, 23, 59, 59, LmtOffset)

StartOfPeriod(period, now) ==
    IF period = "Week" THEN WeekStart(now)
    ELSE IF period = "Month" THEN MonthStart(now)
    ELSE QuarterStart(now)

EndOfPeriod(period, now) ==
    IF period = "Week" THEN WeekEnd(WeekStart(now))
    ELSE IF period = "Month" THEN MonthEnd(MonthStart(now))
    ELSE QuarterEnd(now)

\* line 45; the selectbox offers no other period, so line 42 is not reached
get_date_range(period, now) ==
    <<Strftime(StartOfPeriod(period, now)), Strftime(EndOfPeriod(period, now))>>


(***************************************************************************)
(* Values.  None and "a value" are kept apart by length: None is the empty *)
(* tuple, a present value x is <<x>>.                                      *)
(***************************************************************************)
Some(x) == <<x>>
NoneNone == <<None, None>>

\* a JSON scalar of a Salesforce record
IntV(n) == [t |-> "int", i |-> n, s |-> ""]
StrV(s) == [t |-> "str", i |-> 0, s |-> s]
NullV   == [t |-> "null", i |-> 0, s |-> ""]

Record(type, count, premium, date) ==
    [attributes |-> "AggregateResult", PolicyType |-> type,
     PolicyCount |-> count, TotalPremium |-> premium, EffectiveDate |-> date]

\* The policy types of the model, in Python's string order
TypeNames == <<"A", "B">>

RowA3   == Record(StrV("A"), StrV("3"), IntV(10), StrV("2024-02-01"))
RowB5   == Record(StrV("B"), StrV("5"), NullV, StrV("2024-02-02"))
RowA2   == Record(StrV("A"), IntV(2), StrV("n/a"), NullV)
RowNull == Record(NullV, IntV(1), IntV(4), StrV("2024-02-01"))
RowBad  == Record(StrV("B"), StrV("abc"), IntV(1), StrV("2024-02-02"))

\* The pages the server of the model can answer with
ServerPages == {<<RowA3, RowB5>>, <<RowNull, RowA2>>, <<RowBad>>}

\* The server sends at most this many pages for one query
MaxPages == 2

\* A response of query_all / query_more: nextRecordsUrl is present or not
Response(recs, url) == [records |-> recs, nextRecordsUrl |-> url]

\* The responses the server can give when `served` pages went before
ServerResponses(served) ==
    {Response(p, None) : p \in ServerPages \cup (IF served = 0 THEN {<<>>} ELSE {})}
    \cup (IF served + 1 < MaxPages
          THEN {Response(p, Some(served + 1)) : p \in ServerPages}
          ELSE {})

(***************************************************************************)
(* Shaping (lines 81-92)                                                   *)
(***************************************************************************)
\* int(x) of astype(int): defined on numbers and on digit strings
IntParses(v) == v.t = "int" \/ (v.t = "str" /\ v.s \in {"1", "2", "3", "5"})
IntOf(v) ==
    IF v.t = "int" THEN v.i
    ELSE IF v.s = "1" THEN 1 ELSE IF v.s = "2" THEN 2
    ELSE IF v.s = "3" THEN 3 ELSE 5

\* pd.to_numeric(errors='coerce').fillna(0)
ToNumericOrZero(v) == IF v.t = "int" THEN v.i ELSE 0

\* pd.to_datetime: an ISO date string parses, None becomes NaT
DateParses(v) == v.t = "null" \/ (v.t = "str" /\ v.s \in {"2024-02-01", "2024-02-02"})
ToDatetime(v) ==
    IF v.t = "null" THEN <<"NaT", 0, 0, 0>>
    ELSE IF v.s = "2024-02-01" THEN <<"Timestamp", 2024, 2, 1>>
    ELSE <<"Timestamp", 2024, 2, 2>>

ShapeRow(r, index) ==
    [PolicyType |-> r.PolicyType, PolicyCount |-> IntOf(r.PolicyCount),
     TotalPremium |-> ToNumericOrZero(r.TotalPremium),
     EffectiveDate |-> ToDatetime(r.EffectiveDate), OpportunityIndex |-> index]

\* df[...] raises on an empty frame (no columns); astype(int) and
\* to_datetime raise on a value they cannot convert
ShapeRaises(recs) ==
    \/ Len(recs) = 0
    \/ \E k \in 1..Len(recs) : ~IntParses(recs[k].PolicyCount)
    \/ \E k \in 1..Len(recs) : ~DateParses(recs[k].EffectiveDate)

Shape(recs) == [k \in 1..Len(recs) |-> ShapeRow(recs[k], k)]

\* the f-string of lines 60-70: the template with the two dates inserted
SoqlQuery(start, end) ==
    <<"SELECT ... WHERE ... AND EffectiveDate >=", start,
      "AND EffectiveDate <=", end, "AND Status = 'Active' GROUP BY ... LIMIT 2000">>

\* while 'nextRecordsUrl' in query_results
LoopCondition_inverted(qr) == qr.nextRecordsUrl = None

LoopCondition(qr) == qr.nextRecordsUrl # None

\* records.extend(query_results['records'])
Extend_replace(recs, more) == more

Extend(recs, more) == recs \o more

(***************************************************************************)
(* The policy type filter and the group-by (lines 138-174)                 *)
(***************************************************************************)
\* sorted(df['PolicyType'].dropna().unique())
UniquePolicyTypes(rows) ==
    SelectSeq(TypeNames,
              LAMBDA n : \E k \in 1..Len(rows) : rows[k].PolicyType = StrV(n))

SeqRange(s) == {s[k] : k \in 1..Len(s)}

\* df[df['PolicyType'].isin(selected)]
IsIn(rows, selected) ==
    SelectSeq(rows, LAMBDA r : r.PolicyType.t = "str" /\ r.PolicyType.s \in selected)

RECURSIVE SumOf(_, _)
SumOf(rows, col) ==
    IF rows = <<>> THEN 0 ELSE rows[1][col] + SumOf(Tail(rows), col)

\* groupby('PolicyType').agg(sum).reset_index(): null keys are dropped, the
\* groups come in sorted key order
GroupBy_first(rows) ==
    LET keys == UniquePolicyTypes(rows)
    IN  [g \in 1..Len(keys) |->
            LET members == SelectSeq(rows, LAMBDA r : r.PolicyType = StrV(keys[g]))
            IN  [PolicyType |-> StrV(keys[g]),
                 PolicyCount |-> members[1].PolicyCount,
                 TotalPremium |-> members[1].TotalPremium]]

GroupBy(rows) ==
    LET keys == UniquePolicyTypes(rows)
    IN  [g \in 1..Len(keys) |->
            LET members == SelectSeq(rows, LAMBDA r : r.PolicyType = StrV(keys[g]))
            IN  [PolicyType |-> StrV(keys[g]),
                 PolicyCount |-> SumOf(members, "PolicyCount"),
                 TotalPremium |-> SumOf(members, "TotalPremium")]]


(***************************************************************************)
(* The script                                                              *)
(***************************************************************************)
\* The times of day the clock of the model shows
TimesOfDay == {<<0, 0, 0>>, <<12, 30, 15>>, <<23, 59, 59>>}

Now(y, m, d, t) == DateTime(y, m, d, t[1], t[2], t[3], EasternOffset(y, m, d, t[1]))

Dates == {ymd \in (MinYear..MaxYear) \X (1..12) \X (1..31) :
             ymd[3] <= days_in_month(ymd[1], ymd[2])}

Instants == {Now(ymd[1], ymd[2], ymd[3], t) : ymd \in Dates, t \in TimesOfDay}

\* The instants at which the script of Spec is rerun
AppInstants == {Now(MinYear, 12, 31, <<23, 59, 59>>)}

\* lines 138-174: what the rest of the script computes from the session
\* state and the multiselect
Render(auth, table, selected) ==
    IF auth
    THEN /\ selected \subseteq SeqRange(UniquePolicyTypes(table[1]))
         /\ selected_policy_types' = selected
         /\ filtered_df' = Some(IsIn(table[1], selected))
         /\ policy_type_analysis' = Some(GroupBy(IsIn(table[1], selected)))
    ELSE /\ selected = {}
         /\ selected_policy_types' = {}
         /\ filtered_df' = None
         /\ policy_type_analysis' = None

\* lines 129-133: the session state after the call returned r
SessionAfterQuery_clearsOnFailure(session, r) ==
    IF r[1] # None
    THEN [authenticated |-> TRUE, df |-> r[1], query |-> r[2], force_query |-> FALSE]
    ELSE [authenticated |-> FALSE, df |-> None, query |-> None, force_query |-> TRUE]

SessionAfterQuery_keepsQuery(session, r) ==
    IF r[1] # None
    THEN [authenticated |-> TRUE, df |-> r[1], query |-> session.query,
          force_query |-> FALSE]
    ELSE session

SessionAfterQuery(session, r) ==
    IF r[1] # None
    THEN [authenticated |-> TRUE, df |-> r[1], query |-> r[2], force_query |-> FALSE]
    ELSE session

Session == [authenticated |-> authenticated, df |-> df, query |-> query,
            force_query |-> force_query]

\* line 125-126: the call is made
QueryTriggered(force, auth, button) == (force \/ ~auth) /\ button

\* One rerun of the script, lines 104-128: the user picked period p, pressed
\* the button or not, at instant t.  Without a call to Salesforce the rerun
\* runs to its end in this step.
Rerun(p, b, t, selected) ==
    /\ pc = "idle"
    /\ today' = t
    /\ selected_period' = p
    /\ period_changed' = (p # selected_period)
    /\ start_date' = get_date_range(p, t)[1]
    /\ end_date' = get_date_range(p, t)[2]
    /\ run_query_button' = b
    /\ force_query' = (b \/ force_query)
    /\ outcome' = "none"
    /\ UNCHANGED <<mode, authenticated, df, query, failures, query_results,
                   records, ret, pages, more_calls, last_ok>>
    /\ IF QueryTriggered(b \/ force_query, authenticated, b)
       THEN /\ pc' = "connect"
            /\ before' = <<authenticated, df, query>>
            /\ selected = {}
            /\ selected_policy_types' = {}
            /\ filtered_df' = None
            /\ policy_type_analysis' = None
       ELSE /\ pc' = "idle"
            /\ Render(authenticated, df, selected)
            /\ UNCHANGED before

\* lines 96-98: any exception ends the call with (None, None)
Raise(kind) ==
    /\ ret' = NoneNone
    /\ outcome' = kind
    /\ failures' = IF kind \in {"auth", "query"}
                   THEN failures \cup {<<kind, NoneNone>>} ELSE failures
    /\ query_results' = None
    /\ records' = <<>>
    /\ pc' = "return"

\* lines 52-57: Salesforce(...) logs in, or raises
Connect(ok) ==
    /\ pc = "connect"
    /\ IF ok
       THEN /\ pc' = "query_all"
            /\ UNCHANGED <<ret, failures, outcome, query_results, records>>
       ELSE Raise("auth")
    /\ UNCHANGED <<mode, today, selected_period, start_date, end_date,
                   run_query_button, authenticated, df, query, force_query,
                   selected_policy_types, filtered_df, policy_type_analysis,
                   pages, more_calls, before, period_changed, last_ok>>

\* lines 72-73: the first response, or an exception
QueryAll(ok, resp) ==
    /\ pc = "query_all"
    /\ resp \in ServerResponses(Len(pages))
    /\ IF ok
       THEN /\ query_results' = Some(resp)
            /\ records' = resp.records
            /\ pages' = Append(pages, resp)
            /\ pc' = "loop"
            /\ UNCHANGED <<ret, failures, outcome>>
       ELSE /\ Raise("query")
            /\ UNCHANGED pages
    /\ UNCHANGED <<mode, today, selected_period, start_date, end_date,
                   run_query_button, authenticated, df, query, force_query,
                   selected_policy_types, filtered_df, policy_type_analysis,
                   more_calls, before, period_changed, last_ok>>

\* lines 76-78: one turn of the loop, a query_more with the cursor received
QueryMore(ok, resp) ==
    /\ pc = "loop"
    /\ LoopCondition(query_results[1])
    /\ resp \in ServerResponses(Len(pages))
    /\ more_calls' = more_calls + 1
    /\ IF ok
       THEN /\ query_results' = Some(resp)
            /\ records' = Extend(records, resp.records)
            /\ pages' = Append(pages, resp)
            /\ pc' = "loop"
            /\ UNCHANGED <<ret, failures, outcome>>
       ELSE /\ Raise("query")
            /\ UNCHANGED pages
    /\ UNCHANGED <<mode, today, selected_period, start_date, end_date,
                   run_query_button, authenticated, df, query, force_query,
                   selected_policy_types, filtered_df, policy_type_analysis,
                   before, period_changed, last_ok>>

\* lines 76, 81-94: the loop is left, the records are shaped and returned
ShapeAndReturn ==
    /\ pc = "loop"
    /\ ~LoopCondition(query_results[1])
    /\ IF ShapeRaises(records)
       THEN Raise("shape")
       ELSE /\ ret' = <<Some(Shape(records)), Some(SoqlQuery(start_date, end_date))>>
            /\ outcome' = "ok"
            /\ query_results' = None
            /\ records' = <<>>
            /\ pc' = "return"
            /\ UNCHANGED failures
    /\ UNCHANGED <<mode, today, selected_period, start_date, end_date,
                   run_query_button, authenticated, df, query, force_query,
                   selected_policy_types, filtered_df, policy_type_analysis,
                   pages, more_calls, before, period_changed, last_ok>>

\* lines 129-212: the rest of the rerun after the call returned; the locals
\* of the run are gone when it ends
Return(selected) ==
    /\ pc = "return"
    /\ LET after == SessionAfterQuery(Session, ret)
       IN  /\ authenticated' = after.authenticated
           /\ df' = after.df
           /\ query' = after.query
           /\ force_query' = after.force_query
           /\ Render(after.authenticated, after.df, selected)
    /\ pc' = "idle"
    /\ ret' = None
    /\ last_ok' = IF outcome = "ok" THEN ret ELSE last_ok
    /\ pages' = <<>>
    /\ more_calls' = 0
    /\ before' = <<FALSE, None, None>>
    /\ UNCHANGED <<mode, today, selected_period, start_date, end_date,
                   run_query_button, failures, period_changed, query_results,
                   records, outcome>>

\* The state after the first execution of the script: nothing pressed, the
\* period selectbox at its default (index 1)
Init ==
    /\ mode = "app"
    /\ pc = "idle"
    /\ today \in AppInstants
    /\ selected_period = "Month"
    /\ start_date = get_date_range("Month", today)[1]
    /\ end_date = get_date_range("Month", today)[2]
    /\ run_query_button = FALSE
    /\ authenticated = FALSE
    /\ df = None
    /\ query = None
    /\ force_query = FALSE
    /\ query_results = None
    /\ records = <<>>
    /\ ret = None
    /\ selected_policy_types = {}
    /\ filtered_df = None
    /\ policy_type_analysis = None
    /\ pages = <<>>
    /\ more_calls = 0
    /\ outcome = "none"
    /\ last_ok = NoneNone
    /\ failures = {}
    /\ before = <<FALSE, None, None>>
    /\ period_changed = FALSE

AllResponses == UNION {ServerResponses(n) : n \in 0..MaxPages}

Next ==
    \/ \E p \in Periods, b \in BOOLEAN, t \in AppInstants,
          selected \in SUBSET SeqRange(TypeNames) : Rerun(p, b, t, selected)
    \/ \E ok \in BOOLEAN : Connect(ok)
    \/ \E ok \in BOOLEAN, resp \in AllResponses : QueryAll(ok, resp)
    \/ \E ok \in BOOLEAN, resp \in AllResponses : QueryMore(ok, resp)
    \/ ShapeAndReturn
    \/ \E selected \in SUBSET SeqRange(TypeNames) : Return(selected)

Spec == Init /\ [][Next]_vars

\* Once the button is pressed the script runs on by itself to the end of the
\* rerun; only the next rerun waits for the user.
CallSteps ==
    \/ \E ok \in BOOLEAN : Connect(ok)
    \/ \E ok \in BOOLEAN, resp \in AllResponses : QueryAll(ok, resp)
    \/ \E ok \in BOOLEAN, resp \in AllResponses : QueryMore(ok, resp)
    \/ ShapeAndReturn
    \/ \E selected \in SUBSET SeqRange(TypeNames) : Return(selected)

FairSpec == Spec /\ WF_vars(CallSteps)


(***************************************************************************)
(* get_date_range on its own: any period at any instant                    *)
(***************************************************************************)
InitDate ==
    /\ mode = "date"
    /\ pc = "call"
    /\ today \in Instants
    /\ selected_period \in Periods
    /\ start_date = None
    /\ end_date = None
    /\ run_query_button = FALSE
    /\ authenticated = FALSE
    /\ df = None
    /\ query = None
    /\ force_query = FALSE
    /\ query_results = None
    /\ records = <<>>
    /\ ret = None
    /\ selected_policy_types = {}
    /\ filtered_df = None
    /\ policy_type_analysis = None
    /\ pages = <<>>
    /\ more_calls = 0
    /\ outcome = "none"
    /\ last_ok = NoneNone
    /\ failures = {}
    /\ before = <<FALSE, None, None>>
    /\ period_changed = FALSE

\* line 114
CallGetDateRange ==
    /\ pc = "call"
    /\ start_date' = get_date_range(selected_period, today)[1]
    /\ end_date' = get_date_range(selected_period, today)[2]
    /\ pc' = "called"
    /\ UNCHANGED <<mode, today, selected_period, run_query_button, authenticated,
                   df, query, force_query, query_results, records, ret,
                   selected_policy_types, filtered_df, policy_type_analysis,
                   pages, more_calls, outcome, last_ok, failures, before,
                   period_changed>>

NextDate == CallGetDateRange

SpecDate == InitDate /\ [][NextDate]_vars

(***************************************************************************)
(* Reading the returned strings                                            *)
(***************************************************************************)
Returned == start_date # None /\ end_date # None

\* the UTC offset of a returned string, in minutes
OffsetOf(str) == IF str[7] = "-" THEN 0 - (str[8] * 60 + str[9]) ELSE str[8] * 60 + str[9]

\* the instant a returned string denotes: <<days, seconds>> in UTC
InstantOf(str) ==
    LET secs == str[4] * 3600 + str[5] * 60 + str[6] - OffsetOf(str) * 60
    IN  <<ymd2ord(str[1], str[2], str[3]) + (secs \div 86400), secs % 86400>>

Earlier(a, b) == a[1] < b[1] \/ (a[1] = b[1] /\ a[2] < b[2])

DateOf(str) == <<str[1], str[2], str[3]>>
TimeOf(str) == <<str[4], str[5], str[6]>>
OrdOf(str) == ymd2ord(str[1], str[2], str[3])

\* C1: for every period and every current instant, the start get_date_range
\* returns denotes an instant strictly earlier than the end it returns.
C1_StartBeforeEnd ==
    Returned => Earlier(InstantOf(start_date), InstantOf(end_date))

C1_Witness ==
    /\ mode = "date" /\ pc = "called" /\ selected_period = "Quarter"
    /\ today.month = 12 /\ today.day = 31 /\ today.hour = 23
    /\ Earlier(InstantOf(start_date), InstantOf(end_date))

\* C2: for period Week the start is a Monday at 00:00:00 on or before the
\* current day, the end is the Sunday at 23:59:59 that follows it, exactly
\* 6 days 23:59:59 after the start, and the current day lies in the range.
C2_WeekMondayToSunday ==
    (Returned /\ selected_period = "Week") =>
        /\ weekday(start_date[1], start_date[2], start_date[3]) = 0
        /\ TimeOf(start_date) = <<0, 0, 0>>
        /\ weekday(end_date[1], end_date[2], end_date[3]) = 6
        /\ TimeOf(end_date) = <<23, 59, 59>>
        /\ OrdOf(end_date) = OrdOf(start_date) + 6
        /\ (InstantOf(end_date)[1] - InstantOf(start_date)[1]) * 86400
              + InstantOf(end_date)[2] - InstantOf(start_date)[2]
           = 6 * 86400 + 23 * 3600 + 59 * 60 + 59
        /\ OrdOf(start_date) <= ymd2ord(today.year, today.month, today.day)
        /\ ymd2ord(today.year, today.month, today.day) <= OrdOf(end_date)

\* a Sunday whose week began in the year before
C2_Witness ==
    /\ mode = "date" /\ pc = "called" /\ selected_period = "Week"
    /\ start_date[1] < end_date[1]
    /\ weekday(today.year, today.month, today.day) = 6

\* C3: for period Month the start is day 1 at 00:00:00 of the current month
\* and the end is 23:59:59 on the last calendar day of that same month and
\* year, whatever the length of the month.
C3_MonthFirstToLast ==
    (Returned /\ selected_period = "Month") =>
        /\ DateOf(start_date) = <<today.year, today.month, 1>>
        /\ TimeOf(start_date) = <<0, 0, 0>>
        /\ DateOf(end_date) =
              <<today.year, today.month, days_in_month(today.year, today.month)>>
        /\ TimeOf(end_date) = <<23, 59, 59>>

C3_Witness ==
    /\ mode = "date" /\ pc = "called" /\ selected_period = "Month"
    /\ today.month = 2 /\ today.day = 29
    /\ DateOf(end_date) = <<today.year, 2, 29>>


(***************************************************************************)
(* The Salesforce call and the session                                     *)
(***************************************************************************)
Failed == {"auth", "query", "shape"}

RECURSIVE ConcatPages(_)
ConcatPages(ps) ==
    IF ps = <<>> THEN <<>> ELSE ps[1].records \o ConcatPages(Tail(ps))

Cursors(ps) == Cardinality({k \in 1..Len(ps) : ps[k].nextRecordsUrl # None})

\* C4: when the first response carries a cursor and pages follow until one
\* has none, the rows of the table are the rows of all pages, in page order,
\* none lost, duplicated or reordered: row k of the table is the k-th row the
\* server sent, and the records gathered in the loop are the pages sent so far.
C4_PagesInOrder ==
    /\ (pc = "loop" => records = ConcatPages(pages))
    /\ (pc = "return" /\ outcome = "ok") =>
          LET rows == ret[1][1]
              sent == ConcatPages(pages)
          IN  /\ Len(rows) = Len(sent)
              /\ \A k \in 1..Len(rows) :
                    /\ rows[k].OpportunityIndex = k
                    /\ rows[k].PolicyType = sent[k].PolicyType
                    /\ rows[k].PolicyCount = IntOf(sent[k].PolicyCount)
                    /\ rows[k].TotalPremium = ToNumericOrZero(sent[k].TotalPremium)

\* cursor on page 1, none on page 2, two different pages
C4_Witness ==
    /\ pc = "return" /\ outcome = "ok"
    /\ Len(pages) = 2
    /\ pages[1].nextRecordsUrl # None /\ pages[2].nextRecordsUrl = None
    /\ pages[1].records = <<RowA3, RowB5>> /\ pages[2].records = <<RowNull, RowA2>>
    /\ Len(ret[1][1]) = 4

\* C5: a call in which connecting, querying, paging or shaping fails returns
\* (None, None), and the rerun leaves df, query and authenticated of the
\* session state as they were when the button was pressed.
C5_FailureLeavesSession ==
    /\ [](pc \in {"connect", "query_all", "loop", "return"}
            => before = <<authenticated, df, query>>)
    /\ []((pc = "return" /\ outcome \in Failed) => ret = NoneNone)
    /\ [][(pc = "return" /\ outcome \in Failed)
            => <<authenticated', df', query'>> = before]_vars

\* a table was cached, then a page with PolicyCount "abc" came
C5_Witness ==
    /\ pc = "idle" /\ outcome = "shape" /\ run_query_button
    /\ authenticated /\ df # None

\* C6: grouping the filtered table by PolicyType and summing: the grouped
\* table has one row per distinct policy type of the filtered table, the sums
\* of PolicyCount and of TotalPremium over the groups equal the sums over the
\* rows, and with every policy type selected they equal the sums over the
\* rows of the cached table whose PolicyType is not null.
NonNull(rows) == SelectSeq(rows, LAMBDA r : r.PolicyType.t # "null")
TypesOf(rows) == {rows[k].PolicyType : k \in 1..Len(rows)}

C6_GroupSumsPreserved ==
    (pc = "idle" /\ authenticated) =>
        LET rows    == filtered_df[1]
            grouped == policy_type_analysis[1]
        IN  /\ SumOf(grouped, "PolicyCount") = SumOf(rows, "PolicyCount")
            /\ SumOf(grouped, "TotalPremium") = SumOf(rows, "TotalPremium")
            /\ TypesOf(grouped) = TypesOf(rows)
            /\ Len(grouped) = Cardinality(TypesOf(rows))
            /\ (selected_policy_types = SeqRange(UniquePolicyTypes(df[1])) =>
                  /\ SumOf(grouped, "PolicyCount") = SumOf(NonNull(df[1]), "PolicyCount")
                  /\ SumOf(grouped, "TotalPremium") = SumOf(NonNull(df[1]), "TotalPremium")
                  /\ TypesOf(grouped) = TypesOf(NonNull(df[1])))

\* (A,3), (B,5), a null type, (A,2) aggregate to (A,5), (B,5)
C6_Witness ==
    /\ pc = "idle" /\ authenticated
    /\ Len(df[1]) = 4 /\ Len(NonNull(df[1])) = 3
    /\ [k \in 1..3 |-> NonNull(df[1])[k].PolicyCount] = <<3, 5, 2>>
    /\ policy_type_analysis =
          Some(<<[PolicyType |-> StrV("A"), PolicyCount |-> 5, TotalPremium |-> 10],
                 [PolicyType |-> StrV("B"), PolicyCount |-> 5, TotalPremium |-> 0]>>)

\* C7: a failed login is told apart from a failed query by what the call
\* returns: no login failure returned the value some query failure returned.
C7_AuthDistinctFromQuery ==
    \A f \in failures, g \in failures : f[1] # g[1] => f[2] # g[2]

\* C8: after a rerun in which the period selector changed and no call failed,
\* the cached table is the one fetched for the newly selected period's range.
C8_PeriodChangeRefetches ==
    (pc = "idle" /\ period_changed /\ outcome \notin Failed /\ df # None) =>
        query = Some(SoqlQuery(start_date, end_date))

\* C9: the continuation loop ends (the server of the model sends a page
\* without a cursor after at most MaxPages pages); it is left for shaping only
\* on a response without a cursor, each of its turns is one query_more spending
\* the cursor last received, and when the call returns one query_more was made
\* per cursor received.
C9_LoopTerminates ==
    /\ (pc = "loop") ~> (pc = "return")
    /\ [](pc = "return" => more_calls = Cursors(pages))
    /\ [](pc = "loop" => more_calls = Len(pages) - 1)
    /\ [][(pc = "loop" /\ pc' = "return" /\ outcome' # "query")
            => query_results[1].nextRecordsUrl = None]_vars
    /\ [][(pc = "loop" /\ pc' = "loop")
            => (query_results[1].nextRecordsUrl # None /\ more_calls' = more_calls + 1)]_vars

C9_Witness ==
    /\ pc = "return" /\ more_calls = MaxPages - 1 /\ Len(pages) = MaxPages
    /\ outcome \in {"ok", "shape"}

\* C10: whenever authenticated is true, df and query are not None and are the
\* pair one successful call returned; authenticated becomes true only at the
\* end of a rerun with the button pressed whose call succeeded; it never
\* becomes false again; a failed call leaves force_query true.
C10_SessionInvariant ==
    /\ [](authenticated => (df # None /\ query # None /\ <<df, query>> = last_ok))
    /\ [][(~authenticated /\ authenticated')
            => (pc = "return" /\ run_query_button /\ outcome = "ok")]_vars
    /\ [][authenticated => authenticated']_vars
    /\ [][(pc = "return" /\ outcome \in Failed) => force_query']_vars

\* a successful call for the Week range filled the session
C10_Witness ==
    /\ pc = "idle" /\ authenticated /\ outcome = "ok" /\ run_query_button
    /\ selected_period = "Week" /\ query = Some(SoqlQuery(start_date, end_date))
    /\ Len(df[1]) = 4
    /\ <<df, query>> = last_ok

====
